---- MODULE Spec2Model ----
(***************************************************************************)
(* Model of the "Plano Familiar de Emergencia" application                 *)
(* (src/src/App.jsx): the Plan document held in React state, its           *)
(* write-through persistence to localStorage, the review reminder and the  *)
(* JSON import.                                                            *)
(*                                                                         *)
(* Abstractions, all stated where they are made:                           *)
(*  - a timestamp (ISO string) is a day number counted from                *)
(*    EpochYear-01-01; the time of day, which setMonth preserves, is       *)
(*    dropped, and so is the local-time/UTC offset;                        *)
(*  - a text (a localStorage value, the bytes of a file) is the JSON       *)
(*    value it encodes plus a flag telling that the text is malformed;     *)
(*  - one action is one event handler together with the re-render and the  *)
(*    useEffect(saveState) that React runs after it.                       *)
(***************************************************************************)
EXTENDS Integers, Sequences, FiniteSets, TLC

VARIABLES
    pc,            \* "init" before PFEApp mounts, "running" after, "crashed" if an exception escaped
    state,         \* the Plan: useState at App.jsx:110
    slot,          \* localStorage[STORAGE_KEY]
    now,           \* the wall clock, in days
    showReminder,  \* useState at App.jsx:131
    pending,       \* texts of the files whose FileReader read has not completed yet
    loaded,        \* whether the useState initializer took the Plan from loadState
    alerts,        \* messages of the alert() calls of the last handler, in order
    errlog,        \* whether the last handler wrote to console.error
    lastOp,        \* the handler that ran last, its inputs, and whether the storage had
                   \* room for its save: "ok", "quota", or "none" when it saved nothing
    steps          \* number of events handled in this session

vars == <<pc, state, slot, now, showReminder, pending, loaded, alerts, errlog, lastOp, steps>>

----------------------------------------------------------------------------
(* Bounds *)

MaxSteps == 2       \* events handled per session
MaxImportSteps == 4 \* events handled per session in which imports overlap

----------------------------------------------------------------------------
(* Calendar arithmetic of the JavaScript Date object *)

EpochYear == 2024

IsLeap(y) == (y % 4 = 0 /\ y % 100 # 0) \/ y % 400 = 0

\* m is a JavaScript month index, 0..11
DaysInMonth(y, m) ==
    IF m = 1 THEN (IF IsLeap(y) THEN 29 ELSE 28)
    ELSE IF m \in {3, 5, 8, 10} THEN 30 ELSE 31

DaysInYear(y) == IF IsLeap(y) THEN 366 ELSE 365

RECURSIVE DaysBeforeYear(_)
DaysBeforeYear(y) == IF y <= EpochYear THEN 0 ELSE DaysBeforeYear(y - 1) + DaysInYear(y - 1)

RECURSIVE DaysBeforeMonth(_, _)
DaysBeforeMonth(y, m) == IF m = 0 THEN 0 ELSE DaysBeforeMonth(y, m - 1) + DaysInMonth(y, m - 1)

\* The time value of the date with fields (y, m, d): a month index above 11
\* carries into the year and a day above the month's length runs into the
\* following month, as Date.prototype.setMonth normalises them.
ToDays(y, m, d) == DaysBeforeYear(y + (m \div 12)) + DaysBeforeMonth(y + (m \div 12), m % 12) + d - 1

\* The calendar fields of the n-th day (from 0) counted from the first day of
\* month m of year y.
RECURSIVE FieldsFrom(_, _, _)
FieldsFrom(n, y, m) ==
    IF n < DaysInMonth(y, m) THEN [y |-> y, m |-> m, d |-> n + 1]
    ELSE IF m = 11 THEN FieldsFrom(n - DaysInMonth(y, m), y + 1, 0)
    ELSE FieldsFrom(n - DaysInMonth(y, m), y, m + 1)

\* The calendar fields of a time value (new Date(iso), getMonth, getDate).
FromDays(n) == FieldsFrom(n, EpochYear, 0)

isoAddMonths(dateIso, months) ==
    LET d == FromDays(dateIso)
    IN  ToDays(d.y, d.m + months, d.d)

----------------------------------------------------------------------------
(* JavaScript values and JSON *)

Null == [tag |-> "null"]
Undefined == [tag |-> "undefined"]   \* also stands for a hole of a sparse array

NoItem == [kind |-> "none"]          \* localStorage.getItem of a key never set

\* JSON.stringify of an array writes null for undefined elements and holes.
ArrayToJSON(a) == [i \in 1..Len(a) |-> IF a[i] = Undefined THEN Null ELSE a[i]]

ToJSON(v) == IF v = Null THEN Null ELSE [v EXCEPT !.family = ArrayToJSON(@)]

JSONstringify(v) == [kind |-> "text", json |-> ToJSON(v), malformed |-> FALSE]

\* a parser that accepts whatever precedes the damage
JSONparse_Lenient(text) == [threw |-> FALSE, value |-> text.json]

\* JSON.parse throws SyntaxError on a malformed text.
JSONparse(text) ==
    IF text.malformed THEN [threw |-> TRUE, value |-> Undefined]
    ELSE [threw |-> FALSE, value |-> text.json]

Truthy(v) == v # Null /\ v # Undefined

\* { ...s, ...data }
Spread(s, data) ==
    [k \in (DOMAIN s) \cup (DOMAIN data) |-> IF k \in DOMAIN data THEN data[k] ELSE s[k]]

----------------------------------------------------------------------------
(* Program constants *)

STORAGE_KEY == "pfe_app_v1"

DEFAULT_KIT_ITEMS == <<
    "Documentos (em saco plastico fechado)",
    "Remedios (composicoes e validade)",
    "Agua (minimo 3 dias)",
    "Alimentos nao pereciveis (barras de cereal, chocolate)",
    "Radio (com pilhas)",
    "Lanterna (com pilhas sobressalentes)",
    "Kit de primeiros socorros",
    "Copias de contatos importantes" >>

DISASTER_GUIDES ==
    [ Vendaval |->
        [ Antes   |-> << "Fixar objetos soltos no quintal", "Revisar calhas e telhado",
                         "Identificar abrigo interno seguro" >>,
          Durante |-> << "Fechar portas e janelas", "Desligar aparelhos eletricos",
                         "Abrigar-se em comodo sem janelas" >>,
          Depois  |-> << "Verificar danos estruturais com seguranca",
                         "Evitar linhas de energia caidas", "Reportar danos a Defesa Civil" >> ],
      Inundacao |->
        [ Antes   |-> << "Mover itens em prateleiras altas",
                         "Ter rota de fuga por terreno elevado",
                         "Preparar kit com agua potavel e documentos waterproof" >>,
          Durante |-> << "Nao atravessar areas alagadas a pe ou de carro",
                         "Buscar terreno mais alto",
                         "Desligar energia se houver risco de contato com agua" >>,
          Depois  |-> << "Evitar contato com agua contaminada",
                         "Documentar danos e acionar seguros/autoridades",
                         "Desinfetar locais e alimentos expostos" >> ],
      Granizo |->
        [ Antes   |-> << "Guardar veiculos em garagem",
                         "Abrir apenas o necessario para ventilacao",
                         "Proteger plantas e objetos frageis" >>,
          Durante |-> << "Evitar mover-se ao ar livre",
                         "Abrir portas com cuidado se necessario",
                         "Nao subir em telhados molhados ou danificados" >>,
          Depois  |-> << "Avaliar danos com cautela", "Cuidado com piso escorregadio",
                         "Reportar danos a estruturas a Defesa Civil" >> ] ]

\* The initializer of useState when loadState returns nothing.
DefaultPlan(nowIso) ==
    [ family           |-> << >>,
      routesInternal   |-> << >>,
      meetingPoints    |-> << >>,
      externalContacts |-> << >>,
      kit              |-> [i \in 1..Len(DEFAULT_KIT_ITEMS) |-> [name |-> DEFAULT_KIT_ITEMS[i], have |-> FALSE]],
      disasterGuides   |-> DISASTER_GUIDES,
      riskActions      |-> << >>,
      lastReview       |-> nowIso,
      nextReview       |-> isoAddMonths(nowIso, 6),
      notes            |-> "" ]

----------------------------------------------------------------------------
(* Persistence adapter *)

\* loadState: what it returns, whether an exception escapes it, whether it
\* wrote to console.error.
\* loadState without its try/catch
loadState_NoCatch(raw) ==
    IF raw = NoItem
    THEN [value |-> Null, threw |-> FALSE, logged |-> FALSE]
    ELSE LET p == JSONparse(raw)
         IN  IF p.threw
             THEN [value |-> Undefined, threw |-> TRUE, logged |-> FALSE]
             ELSE [value |-> p.value, threw |-> FALSE, logged |-> FALSE]

loadState(raw) ==
    IF raw = NoItem
    THEN [value |-> Null, threw |-> FALSE, logged |-> FALSE]
    ELSE LET p == JSONparse(raw)
         IN  IF p.threw
             THEN [value |-> Null, threw |-> FALSE, logged |-> TRUE]
             ELSE [value |-> p.value, threw |-> FALSE, logged |-> FALSE]

\* saveState: the slot after the call.  setItem throws QuotaExceededError
\* when the storage has no room (quotaOk = FALSE).
\* saveState without its try/catch
saveState_NoCatch(st, cur, quotaOk) ==
    IF quotaOk
    THEN [slot |-> JSONstringify(st), threw |-> FALSE, logged |-> FALSE]
    ELSE [slot |-> cur, threw |-> TRUE, logged |-> FALSE]

saveState(st, cur, quotaOk) ==
    IF quotaOk
    THEN [slot |-> JSONstringify(st), threw |-> FALSE, logged |-> FALSE]
    ELSE [slot |-> cur, threw |-> FALSE, logged |-> TRUE]

----------------------------------------------------------------------------
(* State updaters of PFEApp: the functions handed to setState *)

Min(a, b) == IF a < b THEN a ELSE b
Max(a, b) == IF a > b THEN a ELSE b

\* [...a]: the iterator yields undefined for a hole, which Undefined already stands for
Copy(a) == a

\* { ...v }: spreading undefined or null gives no property
Props(v) == IF v = Null \/ v = Undefined THEN << >> ELSE v

\* a.splice(start, 1) on a copy of a; start is a JavaScript index
Splice1(a, start) ==
    LET len  == Len(a)
        from == IF start < 0 THEN Max(len + start, 0) ELSE Min(start, len)
        cnt  == Min(1, len - from)
    IN  SubSeq(a, 1, from) \o SubSeq(a, from + cnt + 1, len)

\* a.filter((_, idx) => idx !== i), idx being the index of Head(a)
RECURSIVE FilterOut(_, _, _)
FilterOut(a, i, idx) ==
    IF a = << >> THEN << >>
    ELSE (IF idx # i THEN << Head(a) >> ELSE << >>) \o FilterOut(Tail(a), i, idx + 1)

\* a[index] = v on an array: an index at or past the length extends the array
\* (the positions in between are holes); a negative index names a property
\* that is not an element, so length and elements stay as they are.
ArraySet(a, index, v) ==
    IF index < 0 THEN a
    ELSE IF index < Len(a) THEN [a EXCEPT ![index + 1] = v]
    ELSE a \o [k \in 1..(index - Len(a)) |-> Undefined] \o << v >>

\* a[index]
ArrayGet(a, index) == IF index >= 0 /\ index < Len(a) THEN a[index + 1] ELSE Undefined

addFamilyMember(s, member) == [s EXCEPT !.family = Copy(@) \o << member >>]

updateFamilyMember(s, index, updates) ==
    LET fam == Copy(s.family)
    IN  [s EXCEPT !.family = ArraySet(fam, index, Spread(Props(ArrayGet(fam, index)), updates))]

\* splice(index) without the delete count: everything from index on goes
removeFamilyMember_NoCount(s, index) == [s EXCEPT !.family = SubSeq(Copy(@), 1, index)]

removeFamilyMember(s, index) == [s EXCEPT !.family = Splice1(Copy(@), index)]

\* filter written where map was meant: the item is dropped
toggleKitItem_Filter(s, i) == [s EXCEPT !.kit = FilterOut(@, i, 0)]

toggleKitItem(s, i) ==
    LET kit == [idx \in 1..Len(s.kit) |->
                   IF idx - 1 = i THEN [s.kit[idx] EXCEPT !.have = ~s.kit[idx].have]
                   ELSE s.kit[idx]]
    IN  [s EXCEPT !.kit = kit]

\* recording an action also counts as a review
recordRiskAction_Reviews(s, action) ==
    [s EXCEPT !.riskActions = Copy(@) \o << action >>, !.lastReview = action.date]

recordRiskAction(s, action) == [s EXCEPT !.riskActions = Copy(@) \o << action >>]

\* markReviewed that forgets to recompute nextReview
markReviewed_KeepsNext(s, nowIso) == [s EXCEPT !.lastReview = nowIso]

markReviewed(s, nowIso) == [s EXCEPT !.lastReview = nowIso, !.nextReview = isoAddMonths(nowIso, 6)]

\* due only once the date has passed
isReviewDue_Strict(nextReview, nowDate) == nowDate > nextReview

\* the reminder check on open: now >= next
isReviewDue(nextReview, nowDate) == nowDate >= nextReview

\* a merge that appends an imported list to the current one instead of replacing it
importMerge_Concat(s, data) ==
    LET d == Props(data)
        lists == {"family", "routesInternal", "meetingPoints", "externalContacts", "kit", "riskActions"}
    IN  [k \in (DOMAIN s) \cup (DOMAIN d) |->
            IF k \in DOMAIN d
            THEN (IF k \in lists /\ k \in DOMAIN s THEN s[k] \o d[k] ELSE d[k])
            ELSE s[k]]

\* the spread written the other way round: { ...data, ...s }
importMerge_CurrentWins(s, data) == Spread(Props(data), s)

\* the setState of reader.onload
importMerge(s, data) == Spread(s, Props(data))

\* the onChange props of RoutesEditor, MeetingPointsEditor and ContactsEditor
setRoutesInternal(s, routes) == [s EXCEPT !.routesInternal = routes]
setMeetingPoints(s, pts) == [s EXCEPT !.meetingPoints = pts]
setExternalContacts(s, c) == [s EXCEPT !.externalContacts = c]

----------------------------------------------------------------------------
(* Inputs: what the user types and selects, what the storage holds at start *)

Ana  == [name |-> "Ana",  age |-> "34", relation |-> "mae",   health |-> "",     phone |-> "5551"]
Bia  == [name |-> "Bia",  age |-> "8",  relation |-> "filha", health |-> "asma", phone |-> ""]
Caio == [name |-> "Caio", age |-> "70", relation |-> "avo",   health |-> "",     phone |-> "5553"]

\* contents of the family form at submit; the second lacks the name
FamilyForms == { Ana, [name |-> "", age |-> "8", relation |-> "", health |-> "", phone |-> ""] }

\* what prompt('Editar observacao de saude:') returns when not cancelled
HealthNotes == { "diabetes" }

\* the name field and the steps textarea (as its lines) of RoutesEditor
RouteNames == { "", "Sala-Quintal" }
StepTexts == { << "" >>, << "abrir porta", " ", "seguir ao quintal" >> }

PointInputs == { "", "Praca" }

ContactForms == { [name |-> "Tio Beto", phone |-> "5559", relation |-> "tio"],
                  [name |-> "Tio Beto", phone |-> "",     relation |-> "tio"],
                  [name |-> "",         phone |-> "5559", relation |-> ""] }

RiskTexts == { "", "poda de arvores" }

\* sessions start on 2024-01-31 or on 2024-08-29
StartDays == { ToDays(2024, 0, 31), ToDays(2024, 7, 29) }

\* the clock moves by a day or by about half a year between two events
ClockSteps == { 1, 184 }

\* A Plan an earlier session left in storage: filled in, reviewed on 2024-01-01.
StoredPlan ==
    [ DefaultPlan(ToDays(2024, 0, 1)) EXCEPT
        !.family = << Ana, Bia, Caio >>,
        !.routesInternal = << [name |-> "Sala", steps |-> << "porta" >>],
                              [name |-> "Quarto", steps |-> << "janela", "quintal" >>],
                              [name |-> "Cozinha", steps |-> << >>] >>,
        !.meetingPoints = << "Praca", "Escola", "Igreja" >>,
        !.externalContacts = << [name |-> "Tia Lia", phone |-> "5557", relation |-> "tia"],
                                [name |-> "Vizinho", phone |-> "5558", relation |-> ""],
                                [name |-> "Tio Beto", phone |-> "5559", relation |-> "tio"] >>,
        !.riskActions = << [text |-> "calhas", date |-> ToDays(2024, 0, 1), by |-> "Responsavel"] >> ]

\* A Plan an earlier session left in storage after importing another kit,
\* reviewed on 2024-02-29, the next review falling on 2024-08-29.
StoredImported ==
    [ DefaultPlan(ToDays(2024, 1, 29)) EXCEPT
        !.kit = << [name |-> "Apito", have |-> TRUE] >>,
        !.notes = "importado" ]

MalformedText == [kind |-> "text", json |-> StoredPlan, malformed |-> TRUE]

InitialSlots ==
    { NoItem,
      MalformedText,
      JSONstringify(Null),
      JSONstringify(StoredPlan),
      JSONstringify(StoredImported) }

\* Files the user may select for import.
ImportFiles ==
    { [kind |-> "text", json |-> [family |-> << Bia >>], malformed |-> TRUE],
      [kind |-> "text", json |-> [family |-> << Bia >>], malformed |-> FALSE],
      [kind |-> "text", json |-> [lastReview |-> ToDays(2024, 1, 10)], malformed |-> FALSE],
      [kind |-> "text", json |-> [kit |-> << [name |-> "Apito", have |-> FALSE] >>,
                                  notes |-> "kit novo"], malformed |-> FALSE],
      JSONstringify(StoredPlan) }

----------------------------------------------------------------------------
(* The session *)

Init ==
    /\ pc = "init"
    /\ state = Undefined
    /\ slot \in InitialSlots
    /\ now \in StartDays
    /\ showReminder = FALSE
    /\ pending = << >>
    /\ loaded = FALSE
    /\ alerts = << >>
    /\ errlog = FALSE
    /\ lastOp = [op |-> "none", arg |-> << >>, save |-> "none"]
    /\ steps = 0

\* PFEApp mounts: the useState initializer (loadState or the defaults), then
\* the two effects in their order, saveState(state) and the reminder check.
Mount ==
    /\ pc = "init"
    /\ \E quotaOk \in BOOLEAN :
          LET l  == loadState(slot)
              s0 == IF Truthy(l.value) THEN l.value ELSE DefaultPlan(now)
              r  == saveState(s0, slot, quotaOk)
          IN  IF l.threw
              THEN /\ pc' = "crashed"
                   /\ errlog' = l.logged
                   /\ lastOp' = [op |-> "mount", arg |-> << >>, save |-> "none"]
                   /\ UNCHANGED <<state, slot, showReminder, loaded>>
              ELSE /\ state' = s0
                   /\ loaded' = Truthy(l.value)
                   /\ slot' = r.slot
                   /\ pc' = IF r.threw THEN "crashed" ELSE "running"
                   /\ showReminder' = isReviewDue(s0.nextReview, now)
                   /\ errlog' = (l.logged \/ r.logged)
                   /\ lastOp' = [op |-> "mount", arg |-> << >>,
                                 save |-> IF quotaOk THEN "ok" ELSE "quota"]
    /\ UNCHANGED <<now, pending, alerts, steps>>

\* the application is mounted and fewer than n events were handled
ReadyWithin(n) == pc = "running" /\ steps < n

Ready == ReadyWithin(MaxSteps)

\* setState(updater), the re-render it causes and useEffect(() => saveState(state), [state])
Render(s2, quotaOk, op, arg) ==
    LET r == saveState(s2, slot, quotaOk)
    IN  /\ state' = s2
        /\ slot' = r.slot
        /\ pc' = IF r.threw THEN "crashed" ELSE pc
        /\ errlog' = r.logged
        /\ lastOp' = [op |-> op, arg |-> arg, save |-> IF quotaOk THEN "ok" ELSE "quota"]
        /\ steps' = steps + 1

\* a handler that returns without calling setState
NoRender(op, arg) ==
    /\ lastOp' = [op |-> op, arg |-> arg, save |-> "none"]
    /\ steps' = steps + 1
    /\ errlog' = FALSE
    /\ UNCHANGED <<pc, state, slot>>

\* if (!form.name) of FamilyList.submit
submitRejects(form) == form.name = ""

\* if (!name) of RoutesEditor.addRoute
addRouteRejects(name) == name = ""

\* the check with the phone forgotten
addContactRejects_NameOnly(c) == c.name = ""

\* if (!c.name || !c.phone) of ContactsEditor.add
addContactRejects(c) == c.name = "" \/ c.phone = ""

\* FamilyList.submit, which calls onAdd = addFamilyMember
SubmitFamilyWithin(n) ==
    /\ ReadyWithin(n)
    /\ \E form \in FamilyForms, quotaOk \in BOOLEAN :
          IF submitRejects(form)
          THEN /\ alerts' = << "Informe o nome" >>
               /\ NoRender("submit", [form |-> form])
          ELSE /\ alerts' = << >>
               /\ Render(addFamilyMember(state, form), quotaOk, "addFamilyMember", [member |-> form])
    /\ UNCHANGED <<now, showReminder, pending, loaded>>

SubmitFamily == SubmitFamilyWithin(MaxSteps)

\* the Editar button of a listed member: prompt, then onUpdate(i, { health: updated })
EditMember ==
    /\ Ready
    /\ \E i \in 0..(Len(state.family) - 1), updated \in HealthNotes, quotaOk \in BOOLEAN :
          Render(updateFamilyMember(state, i, [health |-> updated]), quotaOk,
                 "updateFamilyMember", [index |-> i, updates |-> [health |-> updated]])
    /\ alerts' = << >>
    /\ UNCHANGED <<now, showReminder, pending, loaded>>

\* the Remover button of a listed member: confirm, then onRemove(i)
RemoveMember ==
    /\ Ready
    /\ \E i \in 0..(Len(state.family) - 1), quotaOk \in BOOLEAN :
          Render(removeFamilyMember(state, i), quotaOk, "removeFamilyMember", [index |-> i])
    /\ alerts' = << >>
    /\ UNCHANGED <<now, showReminder, pending, loaded>>

\* the checkbox of a kit item
ToggleKit ==
    /\ Ready
    /\ \E i \in 0..(Len(state.kit) - 1), quotaOk \in BOOLEAN :
          Render(toggleKitItem(state, i), quotaOk, "toggleKitItem", [index |-> i])
    /\ alerts' = << >>
    /\ UNCHANGED <<now, showReminder, pending, loaded>>

\* String.prototype.trim on the lines the inputs offer
Trim(l) == IF l = " " THEN "" ELSE l

\* steps.split('\n').map(s => s.trim()).filter(Boolean)
ParseSteps(lines) == SelectSeq([i \in 1..Len(lines) |-> Trim(lines[i])], LAMBDA x : x # "")

\* RoutesEditor.addRoute
AddRoute ==
    /\ Ready
    /\ \E name \in RouteNames, lines \in StepTexts, quotaOk \in BOOLEAN :
          IF addRouteRejects(name)
          THEN /\ alerts' = << "Nome da rota e obrigatorio" >>
               /\ NoRender("addRoute", [name |-> name])
          ELSE LET newRoute == [name |-> name, steps |-> ParseSteps(lines)]
               IN  /\ alerts' = << >>
                   /\ Render(setRoutesInternal(state, Copy(state.routesInternal) \o << newRoute >>),
                             quotaOk, "addRoute", [route |-> newRoute])
    /\ UNCHANGED <<now, showReminder, pending, loaded>>

\* RoutesEditor.remove
RemoveRoute ==
    /\ Ready
    /\ \E i \in 0..(Len(state.routesInternal) - 1), quotaOk \in BOOLEAN :
          Render(setRoutesInternal(state, FilterOut(state.routesInternal, i, 0)),
                 quotaOk, "removeRoute", [index |-> i])
    /\ alerts' = << >>
    /\ UNCHANGED <<now, showReminder, pending, loaded>>

\* MeetingPointsEditor.add
AddPointWithin(n) ==
    /\ ReadyWithin(n)
    /\ \E val \in PointInputs, quotaOk \in BOOLEAN :
          IF val = ""
          THEN NoRender("addPoint", [val |-> val])
          ELSE Render(setMeetingPoints(state, Copy(state.meetingPoints) \o << val >>),
                      quotaOk, "addPoint", [val |-> val])
    /\ alerts' = << >>
    /\ UNCHANGED <<now, showReminder, pending, loaded>>

AddPoint == AddPointWithin(MaxSteps)

\* MeetingPointsEditor.remove
RemovePoint ==
    /\ Ready
    /\ \E i \in 0..(Len(state.meetingPoints) - 1), quotaOk \in BOOLEAN :
          Render(setMeetingPoints(state, FilterOut(state.meetingPoints, i, 0)),
                 quotaOk, "removePoint", [index |-> i])
    /\ alerts' = << >>
    /\ UNCHANGED <<now, showReminder, pending, loaded>>

\* ContactsEditor.add
AddContact ==
    /\ Ready
    /\ \E c \in ContactForms, quotaOk \in BOOLEAN :
          IF addContactRejects(c)
          THEN /\ alerts' = << "Nome e telefone sao obrigatorios" >>
               /\ NoRender("addContact", [contact |-> c])
          ELSE /\ alerts' = << >>
               /\ Render(setExternalContacts(state, Copy(state.externalContacts) \o << c >>),
                         quotaOk, "addContact", [contact |-> c])
    /\ UNCHANGED <<now, showReminder, pending, loaded>>

\* ContactsEditor.remove
RemoveContact ==
    /\ Ready
    /\ \E i \in 0..(Len(state.externalContacts) - 1), quotaOk \in BOOLEAN :
          Render(setExternalContacts(state, FilterOut(state.externalContacts, i, 0)),
                 quotaOk, "removeContact", [index |-> i])
    /\ alerts' = << >>
    /\ UNCHANGED <<now, showReminder, pending, loaded>>

\* RiskActionsEditor.add, which calls onAdd = recordRiskAction
AddRiskAction ==
    /\ Ready
    /\ \E text \in RiskTexts, quotaOk \in BOOLEAN :
          IF text = ""
          THEN NoRender("addRiskAction", [text |-> text])
          ELSE LET action == [text |-> text, date |-> now, by |-> "Responsavel"]
               IN  Render(recordRiskAction(state, action), quotaOk, "recordRiskAction", [action |-> action])
    /\ alerts' = << >>
    /\ UNCHANGED <<now, showReminder, pending, loaded>>

\* The "Marcar como revisado" button, rendered only while showReminder holds.
\* The Notification.requestPermission() call has no effect on the Plan.
MarkReviewed ==
    /\ Ready
    /\ showReminder
    /\ \E quotaOk \in BOOLEAN :
          Render(markReviewed(state, now), quotaOk, "markReviewed", [now |-> now])
    /\ showReminder' = FALSE
    /\ alerts' = << >>
    /\ UNCHANGED <<now, pending, loaded>>

\* importJSON(file): a FileReader starts reading the selected file
ImportJSONWithin(n) ==
    /\ ReadyWithin(n)
    /\ \E file \in ImportFiles :
          /\ pending' = Append(pending, file)
          /\ NoRender("importJSON", [file |-> file])
    /\ alerts' = << >>
    /\ UNCHANGED <<now, showReminder, loaded>>

ImportJSON == ImportJSONWithin(MaxSteps)

\* reader.onload of one of the reads in flight, the k-th in order of selection
ReaderOnloadWithin(n) ==
    /\ ReadyWithin(n)
    /\ \E k \in 1..Len(pending), quotaOk \in BOOLEAN :
          LET text == pending[k]
              p    == JSONparse(text)
          IN  /\ pending' = SubSeq(pending, 1, k - 1) \o SubSeq(pending, k + 1, Len(pending))
              /\ IF p.threw
                 THEN /\ alerts' = << "Arquivo invalido." >>
                      /\ NoRender("onload", [text |-> text, k |-> k])
                 ELSE /\ alerts' = << "Importacao concluida. Verifique os dados e salve." >>
                      /\ Render(importMerge(state, p.value), quotaOk, "onload",
                                [text |-> text, k |-> k])
    /\ UNCHANGED <<now, showReminder, loaded>>

ReaderOnload == ReaderOnloadWithin(MaxSteps)

\* time passes
Tick ==
    /\ Ready
    /\ \E d \in ClockSteps : now' = now + d
    /\ lastOp' = [op |-> "tick", arg |-> << >>, save |-> "none"]
    /\ steps' = steps + 1
    /\ errlog' = FALSE
    /\ UNCHANGED <<pc, state, slot, showReminder, pending, loaded, alerts>>

Next ==
    \/ Mount
    \/ SubmitFamily
    \/ EditMember
    \/ RemoveMember
    \/ ToggleKit
    \/ AddRoute
    \/ RemoveRoute
    \/ AddPoint
    \/ RemovePoint
    \/ AddContact
    \/ RemoveContact
    \/ AddRiskAction
    \/ MarkReviewed
    \/ ImportJSON
    \/ ReaderOnload
    \/ Tick

Spec == Init /\ [][Next]_vars

\* updateFamilyMember called with any index, as its contract allows a caller
\* to do; the Editar button only ever passes the index of a listed member.
CallUpdateFamilyMember ==
    /\ Ready
    /\ \E index \in (-1)..(Len(state.family) + 1), updated \in HealthNotes, quotaOk \in BOOLEAN :
          Render(updateFamilyMember(state, index, [health |-> updated]), quotaOk,
                 "updateFamilyMember", [index |-> index, updates |-> [health |-> updated]])
    /\ alerts' = << >>
    /\ UNCHANGED <<now, showReminder, pending, loaded>>

NextApi == Next \/ CallUpdateFamilyMember

SpecApi == Init /\ [][NextApi]_vars

\* Longer sessions made of file selections, read completions in any order,
\* and the family and meeting-point forms used while reads are in flight.
ImportJSONOverlap == ImportJSONWithin(MaxImportSteps)
ReaderOnloadOverlap == ReaderOnloadWithin(MaxImportSteps)
SubmitFamilyMeanwhile == SubmitFamilyWithin(MaxImportSteps)
AddPointMeanwhile == AddPointWithin(MaxImportSteps)

NextImport ==
    \/ Mount
    \/ ImportJSONOverlap
    \/ ReaderOnloadOverlap
    \/ SubmitFamilyMeanwhile
    \/ AddPointMeanwhile

SpecImport == Init /\ [][NextImport]_vars

TypeOK ==
    /\ pc \in {"init", "running", "crashed"}
    /\ showReminder \in BOOLEAN
    /\ steps \in 0..MaxSteps

----------------------------------------------------------------------------
(* Properties *)

Running == pc = "running"

\* the text a completed read handed to reader.onload, and the snapshot in it
ReadText(op) == op.arg.text
Snapshot(op) == op.arg.text.json

ImportedOk(op) == op.op = "onload" /\ ~ReadText(op).malformed
ImportFailed(op) == op.op = "onload" /\ ReadText(op).malformed

ReviewRel(s) == s.nextReview = isoAddMonths(s.lastReview, 6)

ReviewFields == {"lastReview", "nextReview"}

\* C1, as stated: in every reachable state of the Plan, nextReview equals
\* lastReview plus 6 calendar months.
C1_Original == Running => ReviewRel(state)

\* C1, amended: nextReview equals lastReview plus 6 calendar months in a Plan
\* created from defaults and after every markReviewed, and every operation
\* other than an import whose snapshot holds lastReview or nextReview keeps
\* the relation when it held before.
C1_ReviewOffset ==
    [][ /\ (lastOp'.op = "mount" /\ pc' = "running" /\ ~loaded') => ReviewRel(state')
        /\ lastOp'.op = "markReviewed" =>
              /\ state'.lastReview = now
              /\ ReviewRel(state')
        /\ ( /\ Running
             /\ ReviewRel(state)
             /\ ~(ImportedOk(lastOp') /\ ReviewFields \cap DOMAIN Snapshot(lastOp') # {}) )
           => ReviewRel(state') ]_vars

\* reviewed on 2024-08-29: February 2025 has no 29th, the next review is 2025-03-01
C1_Witness ==
    /\ Running
    /\ lastOp.op = "markReviewed"
    /\ state.lastReview = ToDays(2024, 7, 29)
    /\ state.nextReview = ToDays(2025, 2, 1)

\* C2: when the read of an import completes with a text that does not parse,
\* the Plan is what it was, "Arquivo invalido." is the one alert raised, and
\* nothing is saved.
C2_ImportParseFailure ==
    [][ ImportFailed(lastOp') =>
          /\ state' = state
          /\ slot' = slot
          /\ alerts' = << "Arquivo invalido." >>
          /\ pc' = "running" ]_vars

C2_Witness ==
    /\ ImportFailed(lastOp)
    /\ alerts = << "Arquivo invalido." >>
    /\ state = StoredPlan

\* C3: after the import of a well-formed snapshot every top-level field the
\* snapshot holds has the snapshot's value and every other field of the Plan
\* has the value it had before.
C3_ImportShallowMerge ==
    [][ ImportedOk(lastOp') =>
          /\ DOMAIN state' = (DOMAIN state) \cup (DOMAIN Snapshot(lastOp'))
          /\ \A f \in DOMAIN state' :
                state'[f] = IF f \in DOMAIN Snapshot(lastOp') THEN Snapshot(lastOp')[f] ELSE state[f]
          /\ alerts' = << "Importacao concluida. Verifique os dados e salve." >> ]_vars

\* the stored Plan after importing a file that holds only family
C3_Witness ==
    /\ ImportedOk(lastOp)
    /\ DOMAIN Snapshot(lastOp) = {"family"}
    /\ state.family = << Bia >>
    /\ state = [StoredPlan EXCEPT !.family = << Bia >>]

OutOfBounds(index, list) == index < 0 \/ index >= Len(list)

\* C4, as stated: updateFamilyMember with an index outside 0 <= index < length
\* changes nothing in the Plan.
C4_Original ==
    [][ ( /\ lastOp'.op = "updateFamilyMember"
          /\ OutOfBounds(lastOp'.arg.index, state.family) )
        => state' = state ]_vars

\* C5: a mutation and its save are one step.  When the storage has room the
\* slot holds the serialization of the Plan after the step; when it has not,
\* the slot keeps its value, the Plan keeps the mutation, the failure is
\* logged and the handler completes.  A step that mutates nothing writes
\* nothing.
C5_WriteThrough ==
    [][ /\ lastOp'.save = "ok" =>
              /\ slot' = JSONstringify(state')
              /\ pc' = "running"
        /\ lastOp'.save = "quota" =>
              /\ slot' = slot
              /\ pc' = "running"
              /\ errlog'
              /\ lastOp'.op = "addFamilyMember" =>
                    state'.family = state.family \o << lastOp'.arg.member >>
              /\ lastOp'.op = "toggleKitItem" =>
                    state'.kit[lastOp'.arg.index + 1].have = ~state.kit[lastOp'.arg.index + 1].have
              /\ lastOp'.op = "markReviewed" => state'.lastReview = now
              /\ ImportedOk(lastOp') =>
                    \A f \in DOMAIN Snapshot(lastOp') : state'[f] = Snapshot(lastOp')[f]
        /\ (lastOp'.save = "none" /\ Running) =>
              /\ slot' = slot
              /\ state' = state ]_vars

\* a member was added while the storage was full
C5_Witness ==
    /\ Running
    /\ lastOp.op = "addFamilyMember"
    /\ lastOp.save = "quota"
    /\ state.family = << Ana, Bia, Caio, Ana >>
    /\ slot = JSONstringify(StoredPlan)

\* the Plan the useState initializer builds at time t when nothing was loaded
IsDefaultPlan(s, t) ==
    /\ s.family = << >>
    /\ s.routesInternal = << >>
    /\ s.meetingPoints = << >>
    /\ s.externalContacts = << >>
    /\ s.riskActions = << >>
    /\ Len(s.kit) = Len(DEFAULT_KIT_ITEMS)
    /\ \A i \in 1..Len(s.kit) : s.kit[i] = [name |-> DEFAULT_KIT_ITEMS[i], have |-> FALSE]
    /\ s.lastReview = t
    /\ s.nextReview = isoAddMonths(t, 6)
    /\ s.notes = ""

C7_ReminderOnce ==
    [][ /\ (lastOp'.op = "mount" /\ pc' = "running") =>
              (showReminder' <=> now >= state'.nextReview)
        /\ Running =>
              /\ showReminder' => showReminder
              /\ showReminder' # showReminder => lastOp'.op = "markReviewed"
        /\ lastOp'.op = "markReviewed" => ~showReminder' ]_vars

\* the next review date is reached while the session is open: no reminder
C7_Witness ==
    /\ Running
    /\ lastOp.op = "tick"
    /\ now >= state.nextReview
    /\ ~showReminder

\* C8, as stated: markReviewed is the only operation that changes lastReview
\* or nextReview; every other operation, import included, leaves both as
\* they were.
C8_Original ==
    [][ (Running /\ lastOp'.op # "markReviewed") =>
          /\ state'.lastReview = state.lastReview
          /\ state'.nextReview = state.nextReview ]_vars

\* C8, amended: markReviewed and an import whose snapshot holds lastReview or
\* nextReview are the only operations that change these fields; every other
\* operation leaves both as they were, and an import leaves as it was each
\* of the two that its snapshot does not hold.
C8_ReviewFrame ==
    [][ Running =>
          /\ (lastOp'.op # "markReviewed" /\ ~ImportedOk(lastOp')) =>
                /\ state'.lastReview = state.lastReview
                /\ state'.nextReview = state.nextReview
          /\ ImportedOk(lastOp') =>
                \A f \in ReviewFields \ DOMAIN Snapshot(lastOp') : state'[f] = state[f] ]_vars

\* a risk action recorded on 2024-08-29 in the Plan reviewed on 2024-01-01
C8_Witness ==
    /\ Running
    /\ lastOp.op = "recordRiskAction"
    /\ lastOp.arg.action.date = ToDays(2024, 7, 29)
    /\ state.lastReview = ToDays(2024, 0, 1)
    /\ state.nextReview = ToDays(2024, 6, 1)

KitNames(kit) == [i \in 1..Len(kit) |-> kit[i].name]

ImportsKit(op) == ImportedOk(op) /\ "kit" \in DOMAIN Snapshot(op)

\* C9, as stated: in every state after the Plan is created from defaults the
\* kit has the length and the names of the default checklist, and no
\* operation changes the length or the names of the kit.
C9_Original ==
    /\ []((Running /\ ~loaded) => KitNames(state.kit) = DEFAULT_KIT_ITEMS)
    /\ [][Running => KitNames(state'.kit) = KitNames(state.kit)]_vars

\* C9, amended: the kit of a Plan created from defaults has the length and
\* the names of the default checklist; every operation other than an import
\* whose snapshot holds kit keeps the length and the names of the kit, and
\* the only change such an operation makes to the kit is toggleKitItem
\* flipping the have flag of one item.
C9_KitFixed ==
    [][ /\ (lastOp'.op = "mount" /\ pc' = "running" /\ ~loaded') =>
              /\ KitNames(state'.kit) = DEFAULT_KIT_ITEMS
              /\ \A i \in 1..Len(state'.kit) : ~state'.kit[i].have
        /\ (Running /\ ~ImportsKit(lastOp')) =>
              /\ KitNames(state'.kit) = KitNames(state.kit)
              /\ IF lastOp'.op = "toggleKitItem"
                 THEN \A i \in 1..Len(state.kit) :
                         state'.kit[i].have = IF i - 1 = lastOp'.arg.index
                                              THEN ~state.kit[i].have
                                              ELSE state.kit[i].have
                 ELSE state'.kit = state.kit ]_vars

\* the third item of the default kit was ticked
C9_Witness ==
    /\ Running
    /\ ~loaded
    /\ lastOp.op = "toggleKitItem"
    /\ lastOp.arg.index = 2
    /\ state.kit[3].have
    /\ KitNames(state.kit) = DEFAULT_KIT_ITEMS

\* new is old without the element at JavaScript index i
RemovedAt(old, new, i) ==
    /\ Len(new) = Len(old) - 1
    /\ \A j \in 1..Len(new) : new[j] = IF j - 1 < i THEN old[j] ELSE old[j + 1]

RemovesFrom(field, op, s, t) ==
    LET i == op.arg.index
    IN  (0 <= i /\ i < Len(s[field])) =>
           /\ RemovedAt(s[field], t[field], i)
           /\ DOMAIN t = DOMAIN s
           /\ \A g \in (DOMAIN s) \ {field} : t[g] = s[g]

\* C10: removing the element at index i, 0 <= i < n, from family,
\* routesInternal, meetingPoints or externalContacts leaves the n-1 other
\* elements in their order, those after i one place down, and changes no
\* other field of the Plan.
C10_RemoveListItem ==
    [][ /\ lastOp'.op = "removeFamilyMember" => RemovesFrom("family", lastOp', state, state')
        /\ lastOp'.op = "removeRoute" => RemovesFrom("routesInternal", lastOp', state, state')
        /\ lastOp'.op = "removePoint" => RemovesFrom("meetingPoints", lastOp', state, state')
        /\ lastOp'.op = "removeContact" => RemovesFrom("externalContacts", lastOp', state, state') ]_vars

\* the middle one of three members was removed
C10_Witness ==
    /\ Running
    /\ lastOp.op = "removeFamilyMember"
    /\ lastOp.arg.index = 1
    /\ state.family = << Ana, Caio >>
    /\ state.routesInternal = StoredPlan.routesInternal

\* the family form, the route name and the contact form an add handler was given
FamilyFormOf(op) == IF op.op = "submit" THEN op.arg.form ELSE op.arg.member
RouteNameOf(op) == IF "name" \in DOMAIN op.arg THEN op.arg.name ELSE op.arg.route.name

FamilyNameMissing(op) == op.op \in {"submit", "addFamilyMember"} /\ FamilyFormOf(op).name = ""
RouteNameMissing(op) == op.op = "addRoute" /\ RouteNameOf(op) = ""
ContactFieldMissing(op) ==
    op.op = "addContact" /\ (op.arg.contact.name = "" \/ op.arg.contact.phone = "")

\* C11: submitting the family form without a name, the route form without a
\* name, or the contact form without a name or without a phone raises the
\* form's alert and nothing else: the Plan and the persistence slot are what
\* they were and nothing is saved.
C11_ValidationAborts ==
    [][ /\ FamilyNameMissing(lastOp') => alerts' = << "Informe o nome" >>
        /\ RouteNameMissing(lastOp') => alerts' = << "Nome da rota e obrigatorio" >>
        /\ ContactFieldMissing(lastOp') => alerts' = << "Nome e telefone sao obrigatorios" >>
        /\ (FamilyNameMissing(lastOp') \/ RouteNameMissing(lastOp') \/ ContactFieldMissing(lastOp')) =>
              /\ state' = state
              /\ slot' = slot
              /\ lastOp'.save = "none"
              /\ pc' = pc ]_vars

\* a contact without a phone was submitted to the stored Plan
C11_Witness ==
    /\ Running
    /\ lastOp.op = "addContact"
    /\ lastOp.arg.contact.name = "Tio Beto"
    /\ lastOp.arg.contact.phone = ""
    /\ alerts = << "Nome e telefone sao obrigatorios" >>
    /\ state = StoredPlan
    /\ slot = JSONstringify(StoredPlan)

\* s without its k-th element
WithoutKth(s, k) == [j \in 1..(Len(s) - 1) |-> IF j < k THEN s[j] ELSE s[j + 1]]

\* t is s with the snapshot merged in, field by field
MergedInto(s, snap, t) ==
    /\ DOMAIN t = (DOMAIN s) \cup (DOMAIN snap)
    /\ \A f \in DOMAIN t : t[f] = IF f \in DOMAIN snap THEN snap[f] ELSE s[f]

\* C12: selecting a file changes nothing but the set of reads in flight;
\* while reads are in flight the forms still work and leave the reads alone;
\* the completion of a read, whichever of the reads in flight it is, merges
\* its snapshot in one step into the Plan as it is then, so that edits made
\* since the selection stay in the fields the snapshot does not hold; and
\* after two reads that were in flight together have completed one after the
\* other, every field holds the value of the snapshot that completed last
\* among those holding it.
C12_OverlappingImports ==
    /\ []( (Running /\ pending # << >> /\ steps < MaxImportSteps) =>
              (ENABLED SubmitFamilyMeanwhile /\ ENABLED AddPointMeanwhile) )
    /\ [][ /\ lastOp'.op = "importJSON" =>
                 /\ state' = state
                 /\ slot' = slot
                 /\ pending' = Append(pending, lastOp'.arg.file)
           /\ (lastOp'.op = "addPoint" /\ lastOp'.arg.val # "") =>
                 /\ state'.meetingPoints = state.meetingPoints \o << lastOp'.arg.val >>
                 /\ pending' = pending
           /\ (lastOp'.op = "addFamilyMember" /\ lastOp'.arg.member.name # "") =>
                 /\ state'.family = state.family \o << lastOp'.arg.member >>
                 /\ pending' = pending
           /\ lastOp'.op = "onload" =>
                 /\ lastOp'.arg.k \in 1..Len(pending)
                 /\ ReadText(lastOp') = pending[lastOp'.arg.k]
                 /\ pending' = WithoutKth(pending, lastOp'.arg.k)
           /\ ImportedOk(lastOp') => MergedInto(state, Snapshot(lastOp'), state')
           /\ (ImportedOk(lastOp) /\ ImportedOk(lastOp') /\ Running) =>
                 \A f \in DOMAIN state' :
                    state'[f] = IF f \in DOMAIN Snapshot(lastOp') THEN Snapshot(lastOp')[f]
                                ELSE IF f \in DOMAIN Snapshot(lastOp) THEN Snapshot(lastOp)[f]
                                ELSE state[f] ]_vars

\* The backup was selected first and the family file second; the family file
\* completed first and is merged into the Plan created from defaults, the
\* backup is still being read.
C12_Witness ==
    /\ Running
    /\ ~loaded
    /\ lastOp.op = "onload"
    /\ lastOp.arg.k = 2
    /\ pending = << JSONstringify(StoredPlan) >>
    /\ state.family = << Bia >>
    /\ state.routesInternal = << >>

====
